---- MODULE Spec2Model ----
(***************************************************************************)
(* binGraph, graphs/ent/graph.py: the entropy / byte-occurrence graph.     *)
(*                                                                         *)
(* One run is args_validation(args) followed by generate(...): the file is *)
(* read chunk by chunk, every chunk adds one entropy sample and one        *)
(* percentage per group of interesting bytes, and (unless blob) the file   *)
(* is parsed with lief and the entry point and the sections are drawn as   *)
(* vertical lines at  offset / nr_chunksize.                               *)
(*                                                                         *)
(* Numbers.  Python floats are modelled exactly: a quotient is a record    *)
(* [num, den] with den > 0.  shannon_ent is an integer in 1/1000; a        *)
(* sample of the entropy series is a quotient [num, den] in 1/1000.        *)
(***************************************************************************)
EXTENDS Integers, Sequences, FiniteSets, TLC

VARIABLES
    args,             \* the argparse namespace: graphtype, ibytes (text, decoded), chunks
    backend,          \* matplotlib.get_backend()
    file,             \* the bytes of abs_fpath
    blob,             \* generate(blob=...)
    lief_result,      \* what lief.parse(abs_fpath) does with this file
    pc,               \* position of the run
    error,            \* the exception that ended the run, if any
    warnings,         \* log.warning records, in order
    chunksize,        \* generate: rounded chunk size
    nr_chunksize,     \* generate: non-rounded chunk size, [num, den]
    pos,              \* fh: current read position
    shannon_samples,  \* generate: entropy series
    prev_ent,         \* generate: entropy of the previous chunk
    byte_ranges,      \* generate: per label, the percentage series
    annotations,      \* host.axvline / host.text pairs drawn, in order
    sect_index        \* number of sections the section loop has taken up

vars == <<args, backend, file, blob, lief_result, pc, error, warnings,
          chunksize, nr_chunksize, pos, shannon_samples, prev_ent,
          byte_ranges, annotations, sect_index>>

-----------------------------------------------------------------------------
(* Bounds of the explored inputs *)

MaxFileLen == 5

MaxChunks == 6

MaxListLen == 2

MaxSections == 3

(* Program constants *)

__chunks__ == 750

-----------------------------------------------------------------------------
(* Decoded JSON.  An element of a list is [t, v]; a group's value is       *)
(* [t, items]: for a list its elements, for a str its characters, for a    *)
(* dict its keys (what len() counts and what iteration yields); int, null, *)
(* float and bool values have no len().                                    *)

IntElem(k) == [t |-> "int", v |-> k]

StrElem == [t |-> "str", v |-> 0]

BoolElem == [t |-> "bool", v |-> 1]

FloatElem == [t |-> "float", v |-> 0]

NoElem == [t |-> "none", v |-> 0]

ListVal(items) == [t |-> "list", items |-> items]

IntList(ks) == ListVal([i \in 1..Len(ks) |-> IntElem(ks[i])])

ScalarVal(t) == [t |-> t, items |-> <<>>]

StrVal(n) == [t |-> "str", items |-> [i \in 1..n |-> StrElem]]

DictVal(n) == [t |-> "dict", items |-> [i \in 1..n |-> StrElem]]

NoValue == ScalarVal("none")

Group(name, val) == [name |-> name, val |-> val]

__ibytes_dict__ ==
    << Group("0's", IntList(<<0>>)),
       Group("Printable ASCII", IntList([i \in 1..95 |-> 31 + i])),
       Group("Exploit", IntList(<<44, 144>>)) >>

(* The --ibytes text: None, text json.loads rejects, or text it decodes   *)
(* to doc.                                                                 *)
NoneText == [kind |-> "None", doc |-> <<>>]

MalformedText == [kind |-> "malformed", doc |-> <<>>]

JsonText(doc) == [kind |-> "json", doc |-> doc]

__ibytes__ == JsonText(__ibytes_dict__)

-----------------------------------------------------------------------------
(* Exceptions *)

NoError ==
    [type |-> "none", where |-> "", msg |-> "", name |-> "",
     bytelist |-> NoValue, b |-> NoElem]

Raise(type, where, msg, name, bytelist, b) ==
    [type |-> type, where |-> where, msg |-> msg, name |-> name,
     bytelist |-> bytelist, b |-> b]

-----------------------------------------------------------------------------
(* args_validation *)

TypeIsStr(name) == name \in STRING

HasLen(val) == val.t \in {"list", "str", "dict"}

(* for b in bytelist: the first element that is not an int raises *)
RECURSIVE CheckItems(_, _, _)
CheckItems(name, items, j) ==
    IF j > Len(items) THEN NoError
    ELSE IF ~(items[j].t = "int")
         THEN Raise("ArgValidationEx", "args_validation", "Item in list not an int",
                    name, NoValue, items[j])
         ELSE CheckItems(name, items, j + 1)

CheckGroup(name, bytelist) ==
    IF ~(TypeIsStr(name) \/ bytelist.t = "list")
    THEN Raise("ArgValidationEx", "args_validation",
               "Name is not a string or bytes not list", name, bytelist, NoElem)
    ELSE IF ~HasLen(bytelist)
    THEN Raise("TypeError", "args_validation", "object has no len()",
               "", NoValue, NoElem)
    ELSE IF ~(Len(bytelist.items) > 0)
    THEN Raise("ArgValidationEx", "args_validation",
               "Name is not a string or bytes not list", name, bytelist, NoElem)
    ELSE CheckItems(name, bytelist.items, 1)

(* for name, bytelist in args.ibytes.items(): the first group that raises *)
RECURSIVE CheckDoc(_, _)
CheckDoc(doc, i) ==
    IF i > Len(doc) THEN NoError
    ELSE LET e == CheckGroup(doc[i].name, doc[i].val)
         IN IF e.type # "none" THEN e ELSE CheckDoc(doc, i + 1)

BackendWarning(be) ==
    IF ~(be = "TkAgg") THEN <<"backend">> ELSE <<>>

(* args after the defaults of graphtype 'all' *)
WithDefaults(a) ==
    IF a.graphtype = "all"
    THEN [a EXCEPT !.text = __ibytes__, !.chunks = __chunks__]
    ELSE a

ArgsValidation ==
    /\ pc = "args_validation"
    /\ warnings' = warnings \o BackendWarning(backend)
    /\ LET a == WithDefaults(args)
       IN CASE a.text.kind = "None" ->
                 /\ args' = [a EXCEPT !.ibytes = <<>>]
                 /\ error' = NoError
                 /\ pc' = "validated"
            [] a.text.kind = "malformed" ->
                 /\ args' = a
                 /\ error' = Raise("ArgValidationEx", "args_validation",
                                   "Error decoding json --ibytes value",
                                   "", NoValue, NoElem)
                 /\ pc' = "raised"
            [] OTHER ->
                 LET e == CheckDoc(a.text.doc, 1)
                 IN /\ args' = [a EXCEPT !.ibytes = a.text.doc]
                    /\ error' = e
                    /\ pc' = IF e.type = "none" THEN "validated" ELSE "raised"
    /\ UNCHANGED <<backend, file, blob, lief_result, chunksize, nr_chunksize,
                   pos, shannon_samples, prev_ent, byte_ranges, annotations,
                   sect_index>>

-----------------------------------------------------------------------------
(* generate: chunk sizes *)

(* a chunk size rounded down instead of up *)
ChunkSizeFloor(fs, chunks) ==
    IF chunks > fs THEN 1 ELSE fs \div chunks

ChunkSize(fs, chunks) ==
    IF chunks > fs THEN 1 ELSE -((-fs) \div chunks)

(* the rounded chunk size used as the scale *)
NrChunkSizeRounded(fs, chunks) ==
    [num |-> IF chunks > fs THEN 1 ELSE -((-fs) \div chunks), den |-> 1]

NrChunkSize(fs, chunks) ==
    IF chunks > fs THEN [num |-> 1, den |-> 1] ELSE [num |-> fs, den |-> chunks]

(* x / nr_chunksize for an integer x *)
DivByNr(x, nr) == [num |-> x * nr.den, den |-> nr.num]

NewByteRanges(ibytes) ==
    IF Len(ibytes) > 0
    THEN [i \in 1..Len(ibytes) |-> [label |-> ibytes[i].name, percentages |-> <<>>]]
    ELSE <<>>

GenOpen ==
    /\ pc = "validated"
    /\ LET fs == Len(file)
       IN /\ chunksize' = ChunkSize(fs, args.chunks)
          /\ nr_chunksize' = NrChunkSize(fs, args.chunks)
    /\ byte_ranges' = NewByteRanges(args.ibytes)
    /\ shannon_samples' = <<>>
    /\ prev_ent' = 0
    /\ pos' = 0
    /\ pc' = "loop"
    /\ UNCHANGED <<args, backend, file, blob, lief_result, error, warnings,
                   annotations, sect_index>>

-----------------------------------------------------------------------------
(* get_chunk: fh.read(chunksize) at position p; empty at end of file *)

Min(a, b) == IF a < b THEN a ELSE b

(* a read that gives up on a short final chunk *)
ReadFullOnly(f, p, size) ==
    IF p + size <= Len(f) THEN SubSeq(f, p + 1, p + size) ELSE <<>>

Read(f, p, size) == SubSeq(f, p + 1, Min(p + size, Len(f)))

-----------------------------------------------------------------------------
(* graphs.helpers.shannon_ent: -sum p*log2(p) / 8, p = count / len(chunk), *)
(* in 1/1000; log2 from a table in 1/1000.                                 *)

Log2Milli == <<0, 1000, 1585, 2000, 2322, 2585, 2807, 3000>>

Count(chunk, b) == Cardinality({i \in 1..Len(chunk) : chunk[i] = b})

Values(chunk) == {chunk[i] : i \in 1..Len(chunk)}

RECURSIVE SumCLogC(_, _)
SumCLogC(chunk, bs) ==
    IF bs = {} THEN 0
    ELSE LET b == CHOOSE x \in bs : TRUE
             c == Count(chunk, b)
         IN c * Log2Milli[c] + SumCLogC(chunk, bs \ {b})

shannon_ent(chunk) ==
    LET n == Len(chunk)
    IN (n * Log2Milli[n] - SumCLogC(chunk, Values(chunk))) \div (8 * n)

(* statistics.median of two values: their mean, by true division *)
Median2(a, b) == [num |-> a + b, den |-> 2]

(* the median kept as the sample *)
EntBlended(real_ent, prev) == Median2(real_ent, prev)

(* the sample appended for a chunk: the median is computed, then replaced *)
Ent(real_ent, prev) ==
    LET ent == Median2(real_ent, prev)
    IN [num |-> real_ent, den |-> 1]

-----------------------------------------------------------------------------
(* generate: percentages of the given bytes *)

(* occurrence += cbytes[b] for b in b_range; cbytes = Counter(chunk) *)
RECURSIVE Occurrence(_, _, _)
Occurrence(chunk, b_range, j) ==
    IF j > Len(b_range) THEN 0
    ELSE Count(chunk, b_range[j].v) + Occurrence(chunk, b_range, j + 1)

(* (float(occurrence) / float(len(chunk))) * 100 *)
Percentage(chunk, b_range) ==
    [num |-> Occurrence(chunk, b_range, 1) * 100, den |-> Len(chunk)]

AppendPercentages(ranges, ibytes, chunk) ==
    IF Len(ibytes) > 0
    THEN [i \in 1..Len(ranges) |->
            [ranges[i] EXCEPT !.percentages =
                Append(@, Percentage(chunk, ibytes[i].val.items))]]
    ELSE ranges

GenChunk ==
    /\ pc = "loop"
    /\ LET chunk == Read(file, pos, chunksize)
       IN /\ chunk # <<>>
          /\ pos' = pos + Len(chunk)
          /\ LET real_ent == shannon_ent(chunk)
             IN /\ shannon_samples' = Append(shannon_samples, Ent(real_ent, prev_ent))
                /\ prev_ent' = real_ent
          /\ byte_ranges' = AppendPercentages(byte_ranges, args.ibytes, chunk)
    /\ UNCHANGED <<args, backend, file, blob, lief_result, pc, error, warnings,
                   chunksize, nr_chunksize, annotations, sect_index>>

(* the read that returns nothing ends the loop; the file is closed and the *)
(* series are plotted                                                      *)
GenClose ==
    /\ pc = "loop"
    /\ Read(file, pos, chunksize) = <<>>
    /\ pc' = "filetype"
    /\ UNCHANGED <<args, backend, file, blob, lief_result, error, warnings,
                   chunksize, nr_chunksize, pos, shannon_samples, prev_ent,
                   byte_ranges, annotations, sect_index>>

-----------------------------------------------------------------------------
(* safe_section_name *)

IntStr == <<"0", "1", "2", "3", "4", "5", "6", "7", "8", "9">>

(* str(index) *)
Str(index) == [t |-> "str", v |-> index]

(* 'sect_{:d}'.format(x): format code 'd' takes an int and raises         *)
(* ValueError for a str                                                   *)
FormatSectD(x) ==
    IF x.t = "int"
    THEN [raised |-> FALSE, s |-> "sect_" \o IntStr[x.v + 1]]
    ELSE [raised |-> TRUE, s |-> ""]

(* a section name is [none, s]: None, or the string s *)
NoneName == [none |-> TRUE, s |-> ""]

Name(s) == [none |-> FALSE, s |-> s]

safe_section_name(s_name, index) ==
    IF s_name = Name("") \/ s_name = NoneName
    THEN FormatSectD(Str(index))
    ELSE [raised |-> FALSE, s |-> s_name.s]

-----------------------------------------------------------------------------
(* generate: filetype specific additions.  lief_result is                  *)
(* [kind, ep, sections]: kind "bad_file" (lief.parse raises               *)
(* lief.bad_file), "None" (it returns None), "PE" (a lief.PE.Binary with   *)
(* va_to_offset(entrypoint) = ep and sections of [name, offset]) or "ELF"  *)
(* (another format).                                                       *)

Annotation(label, x) == [label |-> label, x |-> x]

GenParse ==
    /\ pc = "filetype"
    /\ IF blob
       THEN /\ warnings' = Append(warnings, "blob")
            /\ pc' = "plot"
            /\ UNCHANGED <<error, annotations>>
       ELSE CASE lief_result.kind = "bad_file" ->
                   /\ warnings' = Append(warnings, "lief_failed")
                   /\ pc' = "plot"
                   /\ UNCHANGED <<error, annotations>>
              [] lief_result.kind = "None" ->
                   /\ error' = Raise("AttributeError", "generate",
                                     "'NoneType' object has no attribute 'format'",
                                     "", NoValue, NoElem)
                   /\ pc' = "raised"
                   /\ UNCHANGED <<warnings, annotations>>
              [] lief_result.kind = "PE" ->
                   /\ annotations' = Append(annotations,
                          Annotation("EP", DivByNr(lief_result.ep, nr_chunksize)))
                   /\ pc' = "sections"
                   /\ UNCHANGED <<error, warnings>>
              [] OTHER ->
                   /\ pc' = "plot"
                   /\ UNCHANGED <<error, warnings, annotations>>
    /\ UNCHANGED <<args, backend, file, blob, lief_result, chunksize,
                   nr_chunksize, pos, shannon_samples, prev_ent, byte_ranges,
                   sect_index>>

(* one iteration of  for index, section in enumerate(exebin.sections) *)
GenSection ==
    /\ pc = "sections"
    /\ sect_index < Len(lief_result.sections)
    /\ LET index == sect_index
           section == lief_result.sections[index + 1]
           section_name == safe_section_name(section.name, index)
       IN /\ sect_index' = sect_index + 1
          /\ IF section_name.raised
             THEN /\ error' = Raise("ValueError", "generate",
                                    "Unknown format code 'd' for object of type 'str'",
                                    "", NoValue, NoElem)
                  /\ pc' = "raised"
                  /\ UNCHANGED annotations
             ELSE /\ annotations' = Append(annotations,
                         Annotation(section_name.s,
                                    DivByNr(section.offset, nr_chunksize)))
                  /\ UNCHANGED <<error, pc>>
    /\ UNCHANGED <<args, backend, file, blob, lief_result, warnings, chunksize,
                   nr_chunksize, pos, shannon_samples, prev_ent, byte_ranges>>

(* bounds, legends and title; return (plt, kwargs) *)
GenReturn ==
    /\ \/ pc = "plot"
       \/ pc = "sections" /\ sect_index = Len(lief_result.sections)
    /\ pc' = "returned"
    /\ UNCHANGED <<args, backend, file, blob, lief_result, error, warnings,
                   chunksize, nr_chunksize, pos, shannon_samples, prev_ent,
                   byte_ranges, annotations, sect_index>>

Next ==
    \/ ArgsValidation
    \/ GenOpen
    \/ GenChunk
    \/ GenClose
    \/ GenParse
    \/ GenSection
    \/ GenReturn

-----------------------------------------------------------------------------
(* Inputs *)

SeqsUpTo(S, n) == UNION {[1..k -> S] : k \in 0..n}

SeqsFromTo(S, m, n) == UNION {[1..k -> S] : k \in m..n}

FileBytes == {0, 1}

Files == SeqsUpTo(FileBytes, MaxFileLen)

ZeroFiles == {[i \in 1..k |-> 0] : k \in 0..MaxFileLen}

ChunkCounts == 1..MaxChunks

(* lief *)
BadFile == [kind |-> "bad_file", ep |-> 0, sections |-> <<>>]

ParsedNone == [kind |-> "None", ep |-> 0, sections |-> <<>>]

Elf == [kind |-> "ELF", ep |-> 0, sections |-> <<>>]

PE(ep, sections) == [kind |-> "PE", ep |-> ep, sections |-> sections]

Section(name, offset) == [name |-> name, offset |-> offset]

SectionNames == {Name(""), NoneName, Name(".text")}

(* every outcome of lief.parse on a file of fs bytes, landmarks inside it *)
LiefResults(fs) ==
    {BadFile, ParsedNone, Elf}
    \cup {PE(ep, ss) : ep \in 0..(fs - 1),
                       ss \in SeqsUpTo([name : SectionNames, offset : 0..(fs - 1)],
                                       MaxSections)}

(* a few outcomes: no parse, or a PE with one named section *)
FewLiefResults(fs) ==
    {BadFile} \cup {PE(0, <<Section(Name(".text"), fs - 1)>>) : k \in 1..Min(fs, 1)}

(* decoded --ibytes documents *)
Lists01 == {IntList(ks) : ks \in SeqsFromTo(FileBytes, 1, MaxListLen)}

SeriesDocs ==
    {<<>>}
    \cup {<<Group("a", l)>> : l \in Lists01}
    \cup {<<Group("a", l), Group("b", m)>> :
             l \in Lists01, m \in {IntList(<<1>>), IntList(<<0, 1>>)}}

WideElems ==
    {IntElem(-1), IntElem(0), IntElem(256), StrElem, BoolElem, FloatElem}

WideValues ==
    {ListVal(items) : items \in SeqsUpTo(WideElems, MaxListLen)}
    \cup {ScalarVal("int"), ScalarVal("null"), ScalarVal("float"), ScalarVal("bool"),
          StrVal(0), StrVal(2), DictVal(0), DictVal(1)}

WideDocs ==
    {<<>>}
    \cup {<<Group("a", v)>> : v \in WideValues}
    \cup {<<Group("a", v), Group("b", w)>> : v \in WideValues, w \in WideValues}

Args(graphtype, text, chunks) ==
    [graphtype |-> graphtype, text |-> text, ibytes |-> <<>>, chunks |-> chunks]

InitRun ==
    /\ pc = "args_validation"
    /\ error = NoError
    /\ warnings = <<>>
    /\ chunksize = 0
    /\ nr_chunksize = [num |-> 0, den |-> 1]
    /\ pos = 0
    /\ shannon_samples = <<>>
    /\ prev_ent = 0
    /\ byte_ranges = <<>>
    /\ annotations = <<>>
    /\ sect_index = 0

(* chunking and series: every file content, every chunk count *)
Init ==
    /\ InitRun
    /\ args \in {Args("ent", JsonText(d), n) : d \in SeriesDocs, n \in ChunkCounts}
                \cup {Args("all", NoneText, 1)}
    /\ backend = "TkAgg"
    /\ file \in Files
    /\ \/ blob = TRUE /\ lief_result = Elf
       \/ blob = FALSE /\ lief_result \in FewLiefResults(Len(file))

(* validation: every shape of --ibytes *)
InitArgs ==
    /\ InitRun
    /\ args \in {Args(g, t, 2) :
                    g \in {"ent", "all"},
                    t \in {NoneText, MalformedText} \cup {JsonText(d) : d \in WideDocs}}
    /\ backend \in {"TkAgg", "agg"}
    /\ file = <<0, 1, 1>>
    /\ \/ blob = TRUE /\ lief_result = Elf
       \/ blob = FALSE /\ lief_result \in FewLiefResults(Len(file))

(* annotation: every file size, chunk count and outcome of lief.parse *)
InitAnnot ==
    /\ InitRun
    /\ args \in {Args("ent", NoneText, n) : n \in ChunkCounts}
    /\ backend = "TkAgg"
    /\ file \in ZeroFiles
    /\ \/ blob = TRUE /\ lief_result = Elf
       \/ blob = FALSE /\ lief_result \in LiefResults(Len(file))

Spec == Init /\ [][Next]_vars

SpecArgs == InitArgs /\ [][Next]_vars

SpecAnnot == InitAnnot /\ [][Next]_vars

-----------------------------------------------------------------------------
(* Properties *)

FileSize == Len(file)

CeilDiv(a, b) == (a + b - 1) \div b

(* generate has computed the chunk sizes *)
Opened ==
    \/ pc \in {"loop", "filetype", "plot", "sections", "returned"}
    \/ pc = "raised" /\ error.where = "generate"

(* the chunk loop has finished *)
LoopDone ==
    \/ pc \in {"filetype", "plot", "sections", "returned"}
    \/ pc = "raised" /\ error.where = "generate"

(* lief.parse has been tried *)
ParseDone ==
    \/ pc \in {"plot", "sections", "returned"}
    \/ pc = "raised" /\ error.where = "generate"

(* C1: the chunk size passed to get_chunk is ceil(fs / n) when fs > n and  *)
(* 1 otherwise.                                                            *)
C1_ChunkSize ==
    Opened =>
        chunksize = IF FileSize > args.chunks
                    THEN CeilDiv(FileSize, args.chunks)
                    ELSE 1

C1_Witness ==
    /\ Opened
    /\ FileSize > args.chunks
    /\ FileSize % args.chunks # 0
    /\ chunksize * args.chunks > FileSize

(* C2, as claimed: the offset scale nr_chunksize is the unrounded fs / n,  *)
(* scale * n = fs, for every n, also n > fs.                               *)
C2_ScaleIsQuotient ==
    Opened => nr_chunksize.num * args.chunks = FileSize * nr_chunksize.den

(* C2, amended: nr_chunksize is the unrounded fs / n when n <= fs, and is  *)
(* 1 when n > fs.                                                          *)
C2_ScaleIsQuotientOrOne ==
    Opened =>
        IF args.chunks > FileSize
        THEN nr_chunksize.num = nr_chunksize.den
        ELSE nr_chunksize.num * args.chunks = FileSize * nr_chunksize.den

C2_Witness ==
    /\ Opened
    /\ args.chunks > FileSize
    /\ FileSize >= 1
    /\ nr_chunksize = [num |-> 1, den |-> 1]

(* C3: when the chunk loop has finished the entropy series has             *)
(* ceil(fs / chunksize) entries, and one entry per byte when n > fs.       *)
C3_SeriesLength ==
    LoopDone =>
        /\ Len(shannon_samples) = CeilDiv(FileSize, chunksize)
        /\ args.chunks > FileSize => Len(shannon_samples) = FileSize

C3_Witness ==
    /\ LoopDone
    /\ FileSize > args.chunks
    /\ FileSize % chunksize # 0
    /\ Len(shannon_samples) >= 2
    /\ Len(shannon_samples) < args.chunks

(* C4: every percentage appended for a group of an accepted spec lies in   *)
(* [0, 100]: the occurrences summed never exceed the chunk length.         *)
C4_PercentageInRange ==
    \A g \in 1..Len(byte_ranges) :
        \A i \in 1..Len(byte_ranges[g].percentages) :
            LET p == byte_ranges[g].percentages[i]
            IN 0 <= p.num /\ p.num <= 100 * p.den

(* C5: a decoded spec with a group whose value is no list, an empty list   *)
(* or holds a non-integer ends args_validation with ArgValidationEx, the   *)
(* message naming the offending group and value.                           *)
InvalidGroup(g) ==
    \/ g.val.t # "list"
    \/ Len(g.val.items) = 0
    \/ \E j \in 1..Len(g.val.items) : g.val.items[j].t # "int"

C5_InvalidSpecRaises ==
    (/\ pc # "args_validation"
     /\ args.text.kind = "json"
     /\ \E i \in 1..Len(args.text.doc) : InvalidGroup(args.text.doc[i]))
    => /\ pc = "raised"
       /\ error.type = "ArgValidationEx"
       /\ \E i \in 1..Len(args.text.doc) :
             LET g == args.text.doc[i]
             IN /\ InvalidGroup(g)
                /\ error.name = g.name
                /\ \/ error.bytelist = g.val
                   \/ \E j \in 1..Len(g.val.items) :
                         g.val.items[j].t # "int" /\ error.b = g.val.items[j]

(* C6: no spec holding a byte value outside [0, 255] is accepted by        *)
(* args_validation and passed on to the analysis.                          *)
OutOfRange(g) ==
    \E j \in 1..Len(g.val.items) :
        g.val.items[j].t = "int" /\ g.val.items[j].v \notin 0..255

C6_OutOfRangeRejected ==
    (pc = "validated" \/ Opened) =>
        \A i \in 1..Len(args.ibytes) : ~OutOfRange(args.ibytes[i])

(* C7: a section at zero-based position index with an empty or absent name *)
(* is annotated with the label "sect_<index>", a named one with its name.  *)
ExpectedLabel(s_name, index) ==
    IF s_name.none \/ s_name.s = "" THEN "sect_" \o IntStr[index + 1] ELSE s_name.s

C7_SectionLabel ==
    \A i \in 1..sect_index :
        /\ Len(annotations) >= 1 + i
        /\ annotations[1 + i].label =
               ExpectedLabel(lief_result.sections[i].name, i - 1)

(* C8: in format-aware mode a failed parse (lief.bad_file raised, or None  *)
(* returned) records a warning, draws no annotation and does not escape    *)
(* generate() as an error.                                                 *)
C8_ParseFailureDegrades ==
    (~blob /\ lief_result.kind \in {"bad_file", "None"} /\ ParseDone)
    => /\ pc # "raised"
       /\ error = NoError
       /\ \E w \in 1..Len(warnings) : warnings[w] = "lief_failed"
       /\ annotations = <<>>

(* C9: after k chunks the entropy series and every group's percentage      *)
(* series have length k, entry i computed from chunk i alone; with an      *)
(* empty spec there is no percentage series.                               *)
ChunkAt(i) ==
    SubSeq(file, (i - 1) * chunksize + 1, Min(i * chunksize, FileSize))

Matches(chunk, b_range) ==
    {m \in (1..Len(chunk)) \X (1..Len(b_range)) : chunk[m[1]] = b_range[m[2]].v}

C9_SeriesAligned ==
    Opened =>
        LET k == CeilDiv(pos, chunksize)
        IN /\ Len(shannon_samples) = k
           /\ \A i \in 1..k :
                 shannon_samples[i].num =
                     shannon_ent(ChunkAt(i)) * shannon_samples[i].den
           /\ Len(byte_ranges) = Len(args.ibytes)
           /\ \A g \in 1..Len(byte_ranges) :
                 /\ byte_ranges[g].label = args.ibytes[g].name
                 /\ Len(byte_ranges[g].percentages) = k
                 /\ \A i \in 1..k :
                       byte_ranges[g].percentages[i] =
                           [num |-> 100 * Cardinality(
                                       Matches(ChunkAt(i), args.ibytes[g].val.items)),
                            den |-> Len(ChunkAt(i))]

C9_Witness ==
    /\ pc = "loop"
    /\ Len(shannon_samples) >= 2
    /\ shannon_samples[2] # shannon_samples[1]
    /\ Len(byte_ranges) = 2
    /\ Len(byte_ranges[2].percentages) = Len(shannon_samples)
    /\ pos < FileSize

(* C10: the coordinate o / scale of a landmark at an offset o inside the   *)
(* file is at most the number of chunks produced.                          *)
C10_LandmarkInRange ==
    (/\ FileSize >= 1
     /\ lief_result.ep < FileSize
     /\ \A i \in 1..Len(lief_result.sections) :
           lief_result.sections[i].offset < FileSize)
    => \A a \in 1..Len(annotations) :
          annotations[a].x.num <= Len(shannon_samples) * annotations[a].x.den

====
